---- MODULE Spec2Model ----
(***************************************************************************)
(* Model of the `rawenum` attribute macro (src/src/lib.rs).                *)
(*                                                                         *)
(* One run of the model is one use of the attribute: the macro expands a   *)
(* declaration (`input`) under an attribute argument list (`attr`) into a  *)
(* token stream (`expanded`); the compiler then accepts or rejects the     *)
(* expansion, and an accepted expansion's from_<type> functions are        *)
(* called.                                                                 *)
(*                                                                         *)
(* Integers wider than TLC's own are kept as four limbs of 16 bits, least  *)
(* significant first: <<d0, d1, d2, d3>> stands for                        *)
(*     d0 + d1 * 2^16 + d2 * 2^32 + d3 * 2^48                              *)
(* with d0, d1, d2 in 0 .. 2^16 - 1 and the top limb d3 signed             *)
(* (-2^15 .. 2^16 - 1), so every integer in -2^63 .. 2^64 - 1 has exactly  *)
(* one such form and equality of forms is equality of integers.            *)
(***************************************************************************)
EXTENDS Integers, Sequences, FiniteSets, TLC

VARIABLES input, attr, pc, specified_types, idx, all_generated_methods,
          expanded, rustc, discr, call

vars == <<input, attr, pc, specified_types, idx, all_generated_methods,
          expanded, rustc, discr, call>>

\* Bounds of the model.
MaxVariants == 2
MaxTypes == 2

\* ------------------------------------------------------------------ integers

Limb == 2^16

\* The wide form of an integer small enough for TLC's own arithmetic.
W(n) ==
    <<n % Limb,
      (n \div Limb) % Limb,
      IF n < 0 THEN Limb - 1 ELSE 0,
      IF n < 0 THEN -1 ELSE 0>>

I64Max == <<Limb - 1, Limb - 1, Limb - 1, (Limb \div 2) - 1>>
I64Min == <<0, 0, 0, -(Limb \div 2)>>
U64Max == <<Limb - 1, Limb - 1, Limb - 1, Limb - 1>>
U32Max == <<Limb - 1, Limb - 1, 0, 0>>
TwoPow32 == <<0, 0, 1, 0>>

\* a < b, on wide forms: the top limb decides, then the lower ones.
RECURSIVE LessFrom(_, _, _)
LessFrom(a, b, k) ==
    IF k = 0 THEN FALSE
    ELSE IF a[k] # b[k] THEN a[k] < b[k]
    ELSE LessFrom(a, b, k - 1)

Less(a, b) == LessFrom(a, b, 4)
Leq(a, b) == a = b \/ Less(a, b)

\* The integer a wide form stands for, when it fits TLC's arithmetic.
IsSmall(a) ==
    \/ a[3] = 0 /\ a[4] = 0 /\ a[2] < Limb \div 2
    \/ a[3] = Limb - 1 /\ a[4] = -1 /\ a[2] >= Limb \div 2

IntOf(a) ==
    IF a[4] = -1 THEN (a[2] - Limb) * Limb + a[1] ELSE a[2] * Limb + a[1]

\* ------------------------------------------------- the compiler's integers

\* SUPPORTED_TYPES, in the order of the source.
SUPPORTED_TYPES == <<"i8", "u8", "i16", "u16", "i32", "u32", "i64", "u64">>

SupportedSet == {SUPPORTED_TYPES[i] : i \in 1..Len(SUPPORTED_TYPES)}

Width(type_str) ==
    CASE type_str \in {"i8", "u8"} -> 8
      [] type_str \in {"i16", "u16"} -> 16
      [] type_str \in {"i32", "u32"} -> 32
      [] type_str \in {"i64", "u64"} -> 64

Signed(type_str) == type_str \in {"i8", "i16", "i32", "i64"}

\* The 64-bit two's-complement pattern of an enum discriminant (an isize).
Bits64(t) == <<t[1], t[2], t[3], t[4] % Limb>>

\* The low w bits of a pattern.
Truncate(bits, w) ==
    CASE w = 8 -> <<bits[1] % 2^8, 0, 0, 0>>
      [] w = 16 -> <<bits[1], 0, 0, 0>>
      [] w = 32 -> <<bits[1], bits[2], 0, 0>>
      [] w = 64 -> bits

\* Bit w-1 of a pattern of w bits.
SignBit(bits, w) ==
    CASE w = 8 -> bits[1] >= 2^7
      [] w = 16 -> bits[1] >= 2^15
      [] w = 32 -> bits[2] >= 2^15
      [] w = 64 -> bits[4] >= 2^15

\* The integer a pattern of w bits is read as: as it stands when unsigned or
\* when the sign bit is clear, and less 2^w (the sign extended) otherwise.
Reinterpret(bits, w, signed) ==
    IF ~signed \/ ~SignBit(bits, w) THEN bits
    ELSE CASE w = 8 -> <<bits[1] + (Limb - 2^8), Limb - 1, Limb - 1, -1>>
           [] w = 16 -> <<bits[1], Limb - 1, Limb - 1, -1>>
           [] w = 32 -> <<bits[1], bits[2], Limb - 1, -1>>
           [] w = 64 -> <<bits[1], bits[2], bits[3], bits[4] - Limb>>

\* A cast that clamps to the target's range instead of truncating.
CastSaturating(t, type_str) ==
    LET w == Width(type_str)
        lo == IF Signed(type_str)
              THEN CASE w = 8 -> W(-(2^7)) [] w = 16 -> W(-(2^15))
                     [] w = 32 -> <<0, 2^15, Limb - 1, -1>> [] w = 64 -> I64Min
              ELSE W(0)
        hi == IF Signed(type_str)
              THEN CASE w = 8 -> W(2^7 - 1) [] w = 16 -> W(2^15 - 1)
                     [] w = 32 -> <<Limb - 1, 2^15 - 1, 0, 0>> [] w = 64 -> I64Max
              ELSE CASE w = 8 -> W(2^8 - 1) [] w = 16 -> W(2^16 - 1)
                     [] w = 32 -> U32Max [] w = 64 -> U64Max
    IN  IF Less(t, lo) THEN lo ELSE IF Less(hi, t) THEN hi ELSE t

\* `Name::Variant as T`: the discriminant truncated to T's width and read
\* with T's signedness.
Cast(t, type_str) ==
    Reinterpret(Truncate(Bits64(t), Width(type_str)), Width(type_str),
                Signed(type_str))

\* t + 1 wrapping in 64-bit two's complement: 2^63 - 1 is followed by -2^63.
AddOneWrapping(t) ==
    IF t = I64Max THEN I64Min
    ELSE IF t[1] < Limb - 1 THEN <<t[1] + 1, t[2], t[3], t[4]>>
    ELSE IF t[2] < Limb - 1 THEN <<0, t[2] + 1, t[3], t[4]>>
    ELSE IF t[3] < Limb - 1 THEN <<0, 0, t[3] + 1, t[4]>>
    ELSE <<0, 0, 0, t[4] + 1>>

\* t + 1, as an integer.
AddOne(t) ==
    IF t[1] < Limb - 1 THEN <<t[1] + 1, t[2], t[3], t[4]>>
    ELSE IF t[2] < Limb - 1 THEN <<0, t[2] + 1, t[3], t[4]>>
    ELSE IF t[3] < Limb - 1 THEN <<0, 0, t[3] + 1, t[4]>>
    ELSE <<0, 0, 0, t[4] + 1>>

\* Discriminants numbered by position, whatever the explicit values are.
RECURSIVE DiscriminantsByPosition(_)
DiscriminantsByPosition(variants) ==
    IF variants = <<>> THEN <<>>
    ELSE LET n == Len(variants)
             last == variants[n]
         IN  Append(DiscriminantsByPosition(SubSeq(variants, 1, n - 1)),
                    IF last.discriminant # <<>> THEN last.discriminant[1]
                    ELSE W(n - 1))

\* The discriminants the language gives the variants of an enum, in
\* declaration order: the explicit value where one is written, else the
\* previous variant's discriminant plus one, else (first variant) zero.
RECURSIVE Discriminants(_)
Discriminants(variants) ==
    IF variants = <<>> THEN <<>>
    ELSE LET n == Len(variants)
             front == Discriminants(SubSeq(variants, 1, n - 1))
             last == variants[n]
         IN  Append(front,
                    IF last.discriminant # <<>> THEN last.discriminant[1]
                    ELSE IF front = <<>> THEN W(0)
                    ELSE AddOne(front[n - 1]))

\* The least and the greatest value of an integer type.
MinOf(type_str) ==
    IF ~Signed(type_str) THEN W(0)
    ELSE CASE Width(type_str) = 8 -> W(-(2^7))
           [] Width(type_str) = 16 -> W(-(2^15))
           [] Width(type_str) = 32 -> <<0, 2^15, Limb - 1, -1>>
           [] Width(type_str) = 64 -> I64Min

MaxOf(type_str) ==
    IF Signed(type_str)
    THEN CASE Width(type_str) = 8 -> W(2^7 - 1)
           [] Width(type_str) = 16 -> W(2^15 - 1)
           [] Width(type_str) = 32 -> <<Limb - 1, 2^15 - 1, 0, 0>>
           [] Width(type_str) = 64 -> I64Max
    ELSE CASE Width(type_str) = 8 -> W(2^8 - 1)
           [] Width(type_str) = 16 -> W(2^16 - 1)
           [] Width(type_str) = 32 -> U32Max
           [] Width(type_str) = 64 -> U64Max

\* v is a value of the type.
InRange(v, type_str) == Leq(MinOf(type_str), v) /\ Leq(v, MaxOf(type_str))

\* ------------------------------------------------------------ the inputs

None == <<>>
Some(x) == <<x>>

\* A declaration as the macro sees it: the kind of item and, for an enum,
\* its variants in declaration order, each with its optional explicit value.
Decl(kind, discriminants) ==
    [kind |-> kind,
     variants |-> [i \in 1..Len(discriminants) |->
                     [ident |-> i, discriminant |-> discriminants[i]]]]

\* tests/basic.rs: ExplicitEnum, ImplicitEnum, MixedEnum; and an enum
\* without variants, a struct and a union.
ExplicitEnum == Decl("Enum", <<Some(W(0)), Some(W(1)), Some(W(10)), Some(W(-5))>>)
ImplicitEnum == Decl("Enum", <<None, None, None>>)
MixedEnum == Decl("Enum", <<Some(W(100)), None, Some(W(200)), None, None>>)
EmptyEnum == Decl("Enum", <<>>)
DeclSamples ==
    {ExplicitEnum, ImplicitEnum, MixedEnum, EmptyEnum,
     Decl("Struct", <<>>), Decl("Union", <<>>)}

\* Explicit values for the enumerated declarations.
ExplicitSamples == {W(0), W(-1), W(-5), W(200), W(256), TwoPow32, I64Max}

SeqsUpTo(S, n) == UNION {[1..k -> S] : k \in 0..n}

EnumSamples ==
    {Decl("Enum", ds) :
        ds \in SeqsUpTo({None} \cup {Some(v) : v \in ExplicitSamples}, MaxVariants)}

\* A type of the attribute's list: a path type with its last segment's
\* identifier, or some other type (an array, a reference, ...).
PathType(ident) == [path |-> TRUE, ident |-> ident]
ArrayType == [path |-> FALSE, ident |-> "u8"]
TypeSamples ==
    {PathType(t) : t \in SupportedSet} \cup {PathType("usize"), ArrayType}

\* The attribute as written: `#[rawenum]` (bare) or `#[rawenum(...)]`.
\* Either way the macro receives the tokens between the parentheses.
BareAttr == [written |-> "bare", types |-> <<>>]
ListAttr(types) == [written |-> "list", types |-> types]

\* Values the generated functions are called with.
InputSamples ==
    {W(-56), W(-5), W(-1), W(0), W(1), W(2), W(3), W(50), W(101), W(200),
     W(201), W(251), W(255), W(256), W(257), W(2^16 - 1), U32Max, TwoPow32,
     I64Max, I64Min, U64Max}

\* ------------------------------------------------------------- the macro

ErrNoTypes == "at least one integer type must be specified, e.g., #[rawenum(i32)]"
ErrNotEnum == "rawenum can only be applied to enums"
ErrNotIdent == "expected an integer type identifier (e.g., i32)"
ErrUnsupported == "unsupported integer type"

\* What the macro has returned: nothing yet.
NotReturned == [error |-> None, item |-> None, methods |-> <<>>]

\* An error return that leaves the methods generated so far in the output.
CompileErrorKeepingMethods(message) ==
    [error |-> Some(message), item |-> Some(input),
     methods |-> all_generated_methods]

\* `syn::Error::new_spanned(..).to_compile_error().into()`: the returned
\* token stream is the error alone.
CompileError(message) ==
    [error |-> Some(message), item |-> None, methods |-> <<>>]

\* The emptiness check left out.
NoTypesSpecifiedNever(types) == FALSE

\* `specified_types.is_empty()`
NoTypesSpecified(types) == types = <<>>

\* A union let through as if it had variants.
IsEnumOrUnion(data) == data.kind \in {"Enum", "Union"}

\* `let Data::Enum(DataEnum { variants, .. }) = &input.data`
IsEnum(data) == data.kind = "Enum"

\* The validation of one listed type: it must be a path, and the identifier
\* of its last segment one of SUPPORTED_TYPES. (A parsed path always has a
\* last segment, so "invalid type specified" cannot be returned.)
TypeError(specified_type) ==
    IF ~specified_type.path THEN Some(ErrNotIdent)
    ELSE IF specified_type.ident \notin SupportedSet THEN Some(ErrUnsupported)
    ELSE None

\* The loop running over SUPPORTED_TYPES instead of the listed types.
LoopTypeSupported(types, i) == PathType(SUPPORTED_TYPES[i])

\* `for specified_type in specified_types`: the type of the i-th pass.
LoopType(types, i) == types[i]

\* `format_ident!("from_{}", type_str)`
FnName(type_str) == "from_" \o type_str

\* The code of one from_* function: a constant per variant, holding
\* `Name::Variant as T`, a match arm per variant on that constant, in
\* declaration order, and the catch-all arm last.
Method(variants, specified_type) ==
    LET type_str == specified_type.ident
        const_name(i) == <<variants[i].ident, type_str>>
    IN  [fn_name |-> FnName(type_str),
         ty |-> type_str,
         local_generated_consts |->
            [i \in 1..Len(variants) |->
                [const_name |-> const_name(i), ty |-> type_str,
                 variant |-> variants[i].ident]],
         local_match_arms |->
            Append([i \in 1..Len(variants) |->
                      [pat |-> Some(const_name(i)),
                       ret |-> Some(variants[i].ident)]],
                   [pat |-> None, ret |-> None])]

\* The methods with every repeated function name dropped after its first.
RECURSIVE DistinctNames(_)
DistinctNames(methods) ==
    IF methods = <<>> THEN <<>>
    ELSE LET n == Len(methods)
             front == DistinctNames(SubSeq(methods, 1, n - 1))
         IN  IF \E k \in 1..(n - 1) : methods[k].fn_name = methods[n].fn_name
             THEN front
             ELSE Append(front, methods[n])

\* A return that emits one function per distinct name.
ExpandedDistinctNames(item, methods) ==
    [error |-> None, item |-> Some(item), methods |-> DistinctNames(methods)]

\* The successful return: the item as written and one impl block with all
\* the generated methods.
Expanded(item, methods) ==
    [error |-> None, item |-> Some(item), methods |-> methods]

\* ------------------------------------------------- the compiled expansion

\* Why the compiler rejects the macro's output, if it does: the output is a
\* compile_error!; an implicit discriminant overflows isize (E0370); two
\* variants have the same discriminant (E0081); two functions of the impl
\* block have the same name (E0592).
RustcError(tokens) ==
    IF tokens.error # None THEN Some("compile_error")
    ELSE LET tags == Discriminants(tokens.item[1].variants)
             ms == tokens.methods
         IN  IF \E i \in 1..Len(tags) : Less(I64Max, tags[i]) THEN Some("E0370")
             ELSE IF \E i, j \in 1..Len(tags) : i < j /\ tags[i] = tags[j]
                  THEN Some("E0081")
             ELSE IF \E i, j \in 1..Len(ms) : i < j /\ ms[i].fn_name = ms[j].fn_name
                  THEN Some("E0592")
             ELSE None

\* A constant compared in 64 bits, without the cast to the method's type.
ConstValueUncast(method, const_name) ==
    LET c == CHOOSE c \in {method.local_generated_consts[i] :
                             i \in 1..Len(method.local_generated_consts)} :
                 c.const_name = const_name
    IN  discr[c.variant]

\* `const NAME: T = Name::Variant as T;`
ConstValue(method, const_name) ==
    LET c == CHOOSE c \in {method.local_generated_consts[i] :
                             i \in 1..Len(method.local_generated_consts)} :
                 c.const_name = const_name
    IN  Cast(discr[c.variant], c.ty)

\* `match value { arms }`: the first arm, from arm k on, whose pattern is the
\* catch-all or a constant equal to the value decides. (The catch-all is the
\* last arm, so the scan never runs off the end.)
RECURSIVE MatchFrom(_, _, _)
MatchFrom(method, k, value) ==
    LET arms == method.local_match_arms
    IN  IF k > Len(arms) THEN Some(0)
        ELSE IF arms[k].pat = None THEN arms[k].ret
        ELSE IF ConstValue(method, arms[k].pat[1]) = value THEN arms[k].ret
        ELSE MatchFrom(method, k + 1, value)

\* A match in which the last arm that fits decides.
RECURSIVE MatchLast(_, _, _)
MatchLast(method, k, value) ==
    LET arms == method.local_match_arms
    IN  IF k = 0 THEN arms[Len(arms)].ret
        ELSE IF arms[k].pat # None /\ ConstValue(method, arms[k].pat[1]) = value
             THEN arms[k].ret
        ELSE MatchLast(method, k - 1, value)

FromFnLastWins(method, value) ==
    MatchLast(method, Len(method.local_match_arms), value)

\* A match that leaves out the first variant's arm.
FromFnSkipFirst(method, value) ==
    MatchFrom(method, IF Len(method.local_match_arms) > 1 THEN 2 ELSE 1, value)

\* `pub fn from_<type>(value: T) -> Option<Self>`
FromFn(method, value) == MatchFrom(method, 1, value)

\* ------------------------------------------------------------ the actions

Init ==
    /\ \/ /\ input \in DeclSamples
          /\ attr \in {BareAttr} \cup
                      {ListAttr(ts) : ts \in SeqsUpTo(TypeSamples, MaxTypes)}
       \/ /\ input \in EnumSamples
          /\ attr \in {ListAttr(<<PathType(t)>>) : t \in SupportedSet}
    /\ pc = "rawenum"
    /\ specified_types = <<>>
    /\ idx = 0
    /\ all_generated_methods = <<>>
    /\ expanded = NotReturned
    /\ rustc = None
    /\ discr = <<>>
    /\ call = None

\* lines 88-93: the item and the attribute's type list are parsed.
ParseInputs ==
    /\ pc = "rawenum"
    /\ specified_types' = attr.types
    /\ pc' = "parsed"
    /\ UNCHANGED <<input, attr, idx, all_generated_methods, expanded, rustc,
                   discr, call>>

\* lines 96-103: no type was specified.
ReturnNoTypes ==
    /\ pc = "parsed"
    /\ NoTypesSpecified(specified_types)
    /\ expanded' = CompileError(ErrNoTypes)
    /\ pc' = "returned"
    /\ UNCHANGED <<input, attr, specified_types, idx, all_generated_methods,
                   rustc, discr, call>>

\* lines 106-110: the item is not an enum.
ReturnNotEnum ==
    /\ pc = "parsed"
    /\ ~NoTypesSpecified(specified_types)
    /\ ~IsEnum(input)
    /\ expanded' = CompileError(ErrNotEnum)
    /\ pc' = "returned"
    /\ UNCHANGED <<input, attr, specified_types, idx, all_generated_methods,
                   rustc, discr, call>>

\* lines 112-119: the loop over the specified types begins.
EnterLoop ==
    /\ pc = "parsed"
    /\ ~NoTypesSpecified(specified_types)
    /\ IsEnum(input)
    /\ all_generated_methods' = <<>>
    /\ idx' = 1
    /\ pc' = "for_specified_type"
    /\ UNCHANGED <<input, attr, specified_types, expanded, rustc, discr, call>>

\* lines 121-155: the type of this pass is not a supported integer type.
ReturnTypeError ==
    /\ pc = "for_specified_type"
    /\ idx <= Len(specified_types)
    /\ TypeError(LoopType(specified_types, idx)) # None
    /\ expanded' = CompileError(TypeError(LoopType(specified_types, idx))[1])
    /\ pc' = "returned"
    /\ UNCHANGED <<input, attr, specified_types, idx, all_generated_methods,
                   rustc, discr, call>>

\* lines 157-218: one from_* function is generated and collected.
GenerateMethod ==
    /\ pc = "for_specified_type"
    /\ idx <= Len(specified_types)
    /\ TypeError(LoopType(specified_types, idx)) = None
    /\ all_generated_methods' =
          Append(all_generated_methods,
                 Method(input.variants, LoopType(specified_types, idx)))
    /\ idx' = idx + 1
    /\ UNCHANGED <<input, attr, pc, specified_types, expanded, rustc, discr, call>>

\* lines 221-231: the item and the impl block are returned.
ReturnExpanded ==
    /\ pc = "for_specified_type"
    /\ idx > Len(specified_types)
    /\ expanded' = Expanded(input, all_generated_methods)
    /\ pc' = "returned"
    /\ UNCHANGED <<input, attr, specified_types, idx, all_generated_methods,
                   rustc, discr, call>>

\* The compiler rejects the macro's output.
CompileFails ==
    /\ pc = "returned"
    /\ RustcError(expanded) # None
    /\ rustc' = RustcError(expanded)
    /\ pc' = "rejected"
    /\ UNCHANGED <<input, attr, specified_types, idx, all_generated_methods,
                   expanded, discr, call>>

\* The compiler accepts the macro's output: the enum has its discriminants
\* and the generated functions exist.
CompileSucceeds ==
    /\ pc = "returned"
    /\ RustcError(expanded) = None
    /\ discr' = Discriminants(expanded.item[1].variants)
    /\ pc' = "compiled"
    /\ UNCHANGED <<input, attr, specified_types, idx, all_generated_methods,
                   expanded, rustc, call>>

\* The values a generated function is called with: the samples of its
\* parameter's type and each of its own constants.
InputsOf(method) ==
    {v \in InputSamples : InRange(v, method.ty)} \cup
    {ConstValue(method, method.local_generated_consts[i].const_name) :
        i \in 1..Len(method.local_generated_consts)}

\* A generated function is called with a value of its parameter's type.
Call ==
    /\ pc = "compiled"
    /\ \E m \in 1..Len(expanded.methods) :
       \E value \in InputsOf(expanded.methods[m]) :
          call' = Some([method |-> m,
                        fn_name |-> expanded.methods[m].fn_name,
                        ty |-> expanded.methods[m].ty,
                        value |-> value,
                        ret |-> FromFn(expanded.methods[m], value)])
    /\ pc' = "called"
    /\ UNCHANGED <<input, attr, specified_types, idx, all_generated_methods,
                   expanded, rustc, discr>>

Next ==
    \/ ParseInputs
    \/ ReturnNoTypes
    \/ ReturnNotEnum
    \/ EnterLoop
    \/ ReturnTypeError
    \/ GenerateMethod
    \/ ReturnExpanded
    \/ CompileFails
    \/ CompileSucceeds
    \/ Call

Spec == Init /\ [][Next]_vars

\* -------------------------------------------------------------- the claims

\* The macro has returned.
Returned == pc \in {"returned", "rejected", "compiled", "called"}

\* The expansion was accepted by the compiler.
Compiled == pc \in {"compiled", "called"}

Methods == {expanded.methods[m] : m \in 1..Len(expanded.methods)}

\* b = a + 1, stated on the limbs: some limb k goes up by one, the limbs
\* below it roll over from 2^16 - 1 to 0, the limbs above it stay.
IsSuccessor(a, b) ==
    \E k \in 1..4 :
       /\ \A j \in 1..(k - 1) : a[j] = Limb - 1 /\ b[j] = 0
       /\ b[k] = a[k] + 1
       /\ k < 4 => a[k] < Limb - 1
       /\ \A j \in (k + 1)..4 : b[j] = a[j]

\* v - t is a multiple of 2^w.
Congruent(v, t, w) ==
    CASE w = 8 -> (v[1] - t[1]) % 2^8 = 0
      [] w = 16 -> v[1] = t[1]
      [] w = 32 -> v[1] = t[1] /\ v[2] = t[2]
      [] w = 64 -> v[1] = t[1] /\ v[2] = t[2] /\ v[3] = t[3]
                   /\ (v[4] - t[4]) % Limb = 0

\* C1: the tag of every member of a compiled enum follows the
\* implicit-successor rule: the explicit value where one is written, else the
\* preceding member's tag plus one, else (first member) zero; and that tag is
\* what from_i64 compares against.
C1_ImplicitSuccessor ==
    Compiled =>
        LET vs == input.variants
        IN  /\ Len(discr) = Len(vs)
            /\ \A i \in 1..Len(vs) :
                  /\ vs[i].discriminant # None => discr[i] = vs[i].discriminant[1]
                  /\ vs[i].discriminant = None /\ i = 1 =>
                        IsSmall(discr[1]) /\ IntOf(discr[1]) = 0
                  /\ vs[i].discriminant = None /\ i > 1 =>
                        IsSuccessor(discr[i - 1], discr[i])
            /\ \A m \in Methods : \A i \in 1..Len(vs) :
                  m.ty = "i64" =>
                     ConstValue(m, m.local_generated_consts[i].const_name) = discr[i]

\* MixedEnum resolves to 100, 101, 200 and from_* (101) returned Next.
C1_Witness ==
    /\ pc = "called"
    /\ input = MixedEnum
    /\ IntOf(discr[1]) = 100 /\ IntOf(discr[2]) = 101 /\ IntOf(discr[3]) = 200
    /\ IntOf(discr[4]) = 201 /\ IntOf(discr[5]) = 202
    /\ call[1].value = W(101)
    /\ call[1].ret = Some(2)

\* C2: the constant from_<r> matches against is the tag modulo 2^w, read
\* within r's range (0 .. 2^w - 1 unsigned, -2^(w-1) .. 2^(w-1) - 1 signed),
\* whatever the tag's sign: 256 -> u8 is 0, -5 -> u8 is 251, -1 -> u16 is
\* 65535, 200 -> i8 is -56.
C2_Narrowing ==
    Compiled =>
        \A m \in Methods : \A i \in 1..Len(m.local_generated_consts) :
            LET c == m.local_generated_consts[i]
                t == discr[c.variant]
                v == ConstValue(m, c.const_name)
            IN  /\ Congruent(v, t, Width(m.ty))
                /\ Leq(MinOf(m.ty), v) /\ Leq(v, MaxOf(m.ty))
                /\ ~Signed(m.ty) => v[4] >= 0
                /\ t = W(256) /\ m.ty = "u8" => IntOf(v) = 0
                /\ t = W(-5) /\ m.ty = "u8" => IntOf(v) = 251
                /\ t = W(-1) /\ m.ty = "u16" => IntOf(v) = 65535
                /\ t = W(200) /\ m.ty = "i8" => IntOf(v) = -56

\* from_u8(251) returned the member whose tag is -5.
C2_Witness ==
    /\ pc = "called"
    /\ call[1].ty = "u8"
    /\ call[1].value = W(251)
    /\ call[1].ret # None
    /\ discr[call[1].ret[1]] = W(-5)

\* The members whose tag narrows to the value under the type.
Hits(value, type_str) ==
    {i \in 1..Len(discr) : Cast(discr[i], type_str) = value}

\* C3: round trip: called with the narrowed tag of a member that no other
\* member's narrowed tag equals, from_<r> returns that member.
C3_RoundTrip ==
    pc = "called" =>
        \A i \in 1..Len(discr) :
            Hits(call[1].value, call[1].ty) = {i} => call[1].ret = Some(i)

\* A narrowed, non-colliding tag of a member that is not the first was
\* looked up and the member came back.
C3_Witness ==
    /\ pc = "called"
    /\ Hits(call[1].value, call[1].ty) = {2}
    /\ call[1].value # discr[2]
    /\ call[1].ret = Some(2)

\* C4: from_<r> is total: for every value of r it returns one member or
\* None, never anything else; None exactly when the value is no member's
\* narrowed tag, and a member only if the value is that member's narrowed tag.
C4_Total ==
    pc = "called" =>
        LET c == call[1]
        IN  /\ InRange(c.value, c.ty)
            /\ c.ret \in {None} \cup {Some(i) : i \in 1..Len(discr)}
            /\ c.ret = None <=> Hits(c.value, c.ty) = {}
            /\ c.ret # None => c.ret[1] \in Hits(c.value, c.ty)

\* A value that is no member's narrowed tag was looked up in a non-empty
\* enum and None came back.
C4_Witness ==
    /\ pc = "called"
    /\ Len(discr) > 0
    /\ Hits(call[1].value, call[1].ty) = {}
    /\ call[1].ret = None

\* C5: first writer wins: when several members' tags narrow to the looked-up
\* value, the earliest declared is returned; a member with an earlier
\* colliding member is returned for no input.
C5_FirstWriterWins ==
    pc = "called" =>
        LET c == call[1]
            H == Hits(c.value, c.ty)
        IN  /\ Cardinality(H) >= 2 =>
                  c.ret = Some(CHOOSE i \in H : \A j \in H : i <= j)
            /\ \A j \in 1..Len(discr) :
                  (\E i \in 1..(j - 1) :
                      Cast(discr[i], c.ty) = Cast(discr[j], c.ty))
                  => c.ret # Some(j)

\* Two distinct tags collide under the type, the colliding value was looked
\* up and the first member came back.
C5_Witness ==
    /\ pc = "called"
    /\ Hits(call[1].value, call[1].ty) = {1, 2}
    /\ discr[1] # discr[2]
    /\ call[1].ret = Some(1)

\* The eight width/signedness pairs.
EightRepresentations == {"i8", "u8", "i16", "u16", "i32", "u32", "i64", "u64"}

\* The names of the functions in the macro's output.
EmittedNames == {m.fn_name : m \in Methods}

\* The macro's output holds nothing but a compile error.
NoOutput == expanded.methods = <<>> /\ expanded.item = None

\* C6: with the attribute written bare (`#[rawenum]`) on an enum with
\* members, generation succeeds and emits a lookup function for each of the
\* eight representations.
C6_DefaultAllEight ==
    Returned /\ attr.written = "bare" /\ input.kind = "Enum"
             /\ input.variants # <<>> =>
        /\ expanded.error = None
        /\ EmittedNames = {"from_i8", "from_u8", "from_i16", "from_u16",
                           "from_i32", "from_u32", "from_i64", "from_u64"}

\* C7: when generation succeeds for an explicit list, the functions emitted
\* are those of the listed representations and no other, each taking its
\* own representation.
C7_ExactlyRequested ==
    Returned /\ attr.written = "list" /\ expanded.error = None =>
        /\ EmittedNames =
              {FnName(attr.types[k].ident) : k \in 1..Len(attr.types)}
        /\ \A m \in Methods : m.fn_name = FnName(m.ty)
        /\ pc = "called" => call[1].fn_name \in
              {FnName(attr.types[k].ident) : k \in 1..Len(attr.types)}

\* `#[rawenum(i32, u8)]`: from_i32 and from_u8 are emitted, from_i64 is not.
C7_Witness ==
    /\ pc = "returned"
    /\ attr = ListAttr(<<PathType("i32"), PathType("u8")>>)
    /\ expanded.error = None
    /\ EmittedNames = {"from_i32", "from_u8"}
    /\ "from_i64" \notin EmittedNames

\* A listed type that is none of the eight representations.
Unsupported(ty) == ~ty.path \/ ty.ident \notin EightRepresentations

\* C8: for an enum, if any listed type, at any position, is none of the
\* eight representations, the macro returns the unsupported-type error and
\* nothing else: no function, not even for supported types listed before
\* it; the expansion never compiles. (For any declaration the macro then
\* returns an error and no function.)
C8_UnsupportedAborts ==
    (\E k \in 1..Len(attr.types) : Unsupported(attr.types[k])) =>
        /\ Returned =>
              /\ expanded.error # None
              /\ NoOutput
              /\ input.kind = "Enum" =>
                    expanded.error \in {Some(ErrUnsupported), Some(ErrNotIdent)}
        /\ ~Compiled

\* A supported type listed before an unsupported one: a function was
\* generated for the first, and the macro returned the error alone.
C8_Witness ==
    /\ pc = "returned"
    /\ input.kind = "Enum"
    /\ Len(attr.types) = 2
    /\ ~Unsupported(attr.types[1])
    /\ Unsupported(attr.types[2])
    /\ Len(all_generated_methods) = 1
    /\ expanded.error = Some(ErrUnsupported)
    /\ NoOutput

\* C9: an explicit but empty list (`#[rawenum()]`) makes the macro return
\* the at-least-one-type error and no function.
C9_EmptyListAborts ==
    Returned /\ attr.written = "list" /\ attr.types = <<>> =>
        /\ expanded.error = Some(ErrNoTypes)
        /\ NoOutput
        /\ ~Compiled

\* The macro returned for an enum under an empty list.
C9_Witness ==
    /\ pc = "returned"
    /\ attr = ListAttr(<<>>)
    /\ input.kind = "Enum"
    /\ expanded.error = Some(ErrNoTypes)

\* C10 as stated, under a non-empty list of supported types: a struct, a
\* union or an enum without members makes the macro return the not-an-enum
\* error and no function.
C10_Original ==
    Returned /\ attr.types # <<>>
             /\ (\A k \in 1..Len(attr.types) : ~Unsupported(attr.types[k]))
             /\ (input.kind # "Enum" \/ input.variants = <<>>) =>
        expanded.error = Some(ErrNotEnum) /\ NoOutput

\* C10, amended: a struct or a union, under a non-empty list, makes the macro
\* return the not-an-enum error and no function (under an empty list the
\* error is the at-least-one-type error); an enum without members is not
\* rejected for having none: under supported types the macro succeeds and
\* every function it emits has the catch-all arm alone and returns None.
C10_NotEnumAborts ==
    /\ Returned /\ input.kind # "Enum" =>
          /\ NoOutput
          /\ ~Compiled
          /\ expanded.error =
                IF attr.types = <<>> THEN Some(ErrNoTypes) ELSE Some(ErrNotEnum)
    /\ Returned /\ input.kind = "Enum" /\ input.variants = <<>> =>
          /\ expanded.error # Some(ErrNotEnum)
          /\ (attr.types # <<>>
              /\ \A k \in 1..Len(attr.types) : ~Unsupported(attr.types[k])) =>
                 /\ expanded.error = None
                 /\ Len(expanded.methods) = Len(attr.types)
                 /\ \A m \in Methods :
                       m.local_match_arms = <<[pat |-> None, ret |-> None]>>
          /\ pc = "called" => call[1].ret = None

\* The macro returned the not-an-enum error for a struct under a list of
\* supported types.
C10_Witness ==
    /\ pc = "returned"
    /\ input.kind = "Struct"
    /\ attr = ListAttr(<<PathType("i32"), PathType("u8")>>)
    /\ expanded.error = Some(ErrNotEnum)
    /\ NoOutput

\* A member with the explicit value 2^63 - 1 is followed by a member without
\* an explicit value, under a non-empty list of supported types.
ImplicitAfterMax ==
    /\ input.kind = "Enum"
    /\ \E i \in 1..(Len(input.variants) - 1) :
          /\ input.variants[i].discriminant = Some(I64Max)
          /\ input.variants[i + 1].discriminant = None
    /\ attr.types # <<>>
    /\ \A k \in 1..Len(attr.types) : ~Unsupported(attr.types[k])

\* C11 as stated: the member after 2^63 - 1 resolves to -2^63 and the
\* expansion is accepted, so that tag is what the lookups compare against.
C11_Original ==
    ImplicitAfterMax /\ pc \in {"rejected", "compiled", "called"} =>
        /\ Compiled
        /\ \A i \in 1..(Len(input.variants) - 1) :
              (input.variants[i].discriminant = Some(I64Max)
               /\ input.variants[i + 1].discriminant = None)
              => discr[i + 1] = I64Min

\* C11, amended: the macro does no tag arithmetic, so for a member without
\* an explicit value after 2^63 - 1 the macro itself still returns its
\* output, one function per listed type; but the implicit tag does not wrap:
\* 2^63 is no discriminant, the compiler rejects the enum (E0370), and no
\* tag and no lookup function comes to exist.
C11_OverflowRejected ==
    ImplicitAfterMax =>
        /\ Returned =>
              /\ expanded.error = None
              /\ expanded.item = Some(input)
              /\ Len(expanded.methods) = Len(attr.types)
        /\ ~Compiled
        /\ discr = <<>>
        /\ call = None
        /\ pc = "rejected" => rustc = Some("E0370")

\* [2^63 - 1, implicit]: the macro returned its function and the compiler
\* rejected the enum for the overflowing discriminant.
C11_Witness ==
    /\ pc = "rejected"
    /\ Len(input.variants) = 2
    /\ input.variants[1].discriminant = Some(I64Max)
    /\ input.variants[2].discriminant = None
    /\ expanded.error = None
    /\ Len(expanded.methods) = 1
    /\ rustc = Some("E0370")

\* C12: a successful expansion holds, in its one impl block, one function
\* per entry of the type list, in list order and with repeats kept: the k-th
\* function is from_<k-th type>, so a type listed twice gives two functions
\* of the same name and the functions number as many as the list is long.
C12_OnePerEntry ==
    Returned /\ expanded.error = None =>
        /\ Len(expanded.methods) = Len(attr.types)
        /\ \A k \in 1..Len(attr.types) :
              /\ expanded.methods[k].fn_name = FnName(attr.types[k].ident)
              /\ expanded.methods[k].ty = attr.types[k].ident
        /\ \A j, k \in 1..Len(attr.types) :
              attr.types[j] = attr.types[k] =>
                 expanded.methods[j].fn_name = expanded.methods[k].fn_name

\* `#[rawenum(u8, u8)]` on an enum with members: two functions named from_u8
\* are returned, twice the number of distinct names.
C12_Witness ==
    /\ pc = "returned"
    /\ input.variants # <<>>
    /\ attr = ListAttr(<<PathType("u8"), PathType("u8")>>)
    /\ expanded.error = None
    /\ Len(expanded.methods) = 2
    /\ expanded.methods[1].fn_name = "from_u8"
    /\ expanded.methods[2].fn_name = "from_u8"
    /\ Cardinality(EmittedNames) = 1

====
